---- MODULE Spec2Model ----
(***************************************************************************)
(* Model of forwarder.py: a Telegram userbot that re-creates messages of   *)
(* source channels in one target chat.  The state is the module-level      *)
(* globals (FORWARD_ENABLED, PROCESSED_ALBUM_IDS, PENDING_ALBUMS,          *)
(* USD_TO_UZS_RATE), the position of the rate-refresh task, and a log of   *)
(* the outbound calls the handlers issued.                                 *)
(*                                                                         *)
(* A text is a sequence of one-character strings.  None and "" are both    *)
(* the empty sequence where the code only tests truthiness                 *)
(* (`msg.message or ""`, `if not caption`).                                *)
(***************************************************************************)
EXTENDS Integers, Sequences, FiniteSets, TLC

\* ------------------------------------------------------------------ bounds

\* Steps of the event loop per run: an event handled up to its await or its
\* end, an awaited call returning, a step of the refresh task.
MaxSteps == 4

\* ------------------------------------------------------- values of the model

\* grouped_id of a message that belongs to no album (None).
NoGid == 0

\* USD_TO_UZS_RATE = None.
NoRate == 0 - 1

\* A rate r is held as the integer r * RateScale, so that 1.5 is a rate.
RateScale == 2

\* What _amount_to_uzs returns for an amount it cannot parse (None).
NoneText == <<"<None>">>

\* The grouped_id values of the albums of the source channels.
Gids == {1, 2}

\* ------------------------------------------------------------ character classes

Digits == {"0", "1", "2", "3", "4", "5", "6", "7", "8", "9"}

\* \d and str.isdigit() on the model's alphabet.
IsDigit(c) == c \in Digits

\* \s and str.isspace() on the model's alphabet.
IsSpace(c) == c \in {" ", "\n"}

\* [\d\s_.,]
IsAmountChar(c) == IsDigit(c) \/ IsSpace(c) \/ c \in {"_", ".", ","}

\* [ _.,]
IsGroupSep(c) == c \in {" ", "_", ".", ","}

DigitVal(c) ==
    CASE c = "0" -> 0 [] c = "1" -> 1 [] c = "2" -> 2 [] c = "3" -> 3
      [] c = "4" -> 4 [] c = "5" -> 5 [] c = "6" -> 6 [] c = "7" -> 7
      [] c = "8" -> 8 [] c = "9" -> 9

DigitChar(d) ==
    CASE d = 0 -> "0" [] d = 1 -> "1" [] d = 2 -> "2" [] d = 3 -> "3"
      [] d = 4 -> "4" [] d = 5 -> "5" [] d = 6 -> "6" [] d = 7 -> "7"
      [] d = 8 -> "8" [] d = 9 -> "9"

\* First index at or after i whose character is not whitespace (Len(s)+1 if none).
RECURSIVE SpaceRunEnd(_, _)
SpaceRunEnd(s, i) ==
    IF i <= Len(s) /\ IsSpace(s[i]) THEN SpaceRunEnd(s, i + 1) ELSE i

\* First index at or after i whose character is not in [\d\s_.,].
RECURSIVE AmountRunEnd(_, _)
AmountRunEnd(s, i) ==
    IF i <= Len(s) /\ IsAmountChar(s[i]) THEN AmountRunEnd(s, i + 1) ELSE i

\* First index at or after i whose character is not a digit.
RECURSIVE DigitRunEnd(_, _)
DigitRunEnd(s, i) ==
    IF i <= Len(s) /\ IsDigit(s[i]) THEN DigitRunEnd(s, i + 1) ELSE i

\* s[i..] starts with the text w.
StartsWithAt(s, i, w) ==
    /\ i + Len(w) - 1 <= Len(s)
    /\ \A k \in 1 .. Len(w) : s[i + k - 1] = w[k]

\* str.replace(c, "") for each c in the set drop.
RECURSIVE RemoveChars(_, _)
RemoveChars(s, drop) ==
    IF s = <<>> THEN <<>>
    ELSE (IF Head(s) \in drop THEN <<>> ELSE <<Head(s)>>) \o RemoveChars(Tail(s), drop)

\* int(digits)
RECURSIVE ParseInt(_)
ParseInt(s) ==
    IF s = <<>> THEN 0
    ELSE 10 * ParseInt(SubSeq(s, 1, Len(s) - 1)) + DigitVal(s[Len(s)])

\* str(n) for n >= 0
RECURSIVE IntToText(_)
IntToText(n) ==
    IF n < 10 THEN <<DigitChar(n)>> ELSE IntToText(n \div 10) \o <<DigitChar(n % 10)>>

\* f"{n:,}".replace(",", " ") for n >= 0: groups of three digits from the right.
RECURSIVE GroupThousands(_)
GroupThousands(d) ==
    IF Len(d) <= 3 THEN d
    ELSE GroupThousands(SubSeq(d, 1, Len(d) - 3)) \o <<" ">> \o SubSeq(d, Len(d) - 2, Len(d))

\* int(round(amount * rate)) for the rate held as rate / RateScale: Python 3
\* rounds to nearest, ties to even.  The whole part of the rate is multiplied
\* apart from its fraction so that the product stays in TLC's integers.
RoundAmountTimesRate(amount, rate) ==
    LET whole == amount * (rate \div RateScale) + (amount * (rate % RateScale)) \div RateScale
        rem == (amount * (rate % RateScale)) % RateScale
    IN  IF 2 * rem < RateScale THEN whole
        ELSE IF 2 * rem > RateScale THEN whole + 1
        ELSE IF whole % 2 = 0 THEN whole ELSE whole + 1

\* ------------------------------------------------------------ _convert_prices

\* _amount_to_uzs: the amount without " ", "_", "," and ".", times the rate,
\* rounded, rendered with a space between groups of three digits; NoneText
\* when what is left is not all digits.
AmountToUzs(amount_str, rate) ==
    LET raw == RemoveChars(amount_str, {" ", "_"})
        digits_only == RemoveChars(raw, {",", "."})
    IN  IF raw = <<>> THEN NoneText
        ELSE IF digits_only = <<>> \/ \E k \in 1 .. Len(digits_only) : ~IsDigit(digits_only[k])
        THEN NoneText
        ELSE GroupThousands(IntToText(RoundAmountTimesRate(ParseInt(digits_only), rate)))

\* The replacement the three converting callbacks return for a match.
ConvertMatch(whole, amount_str, rate) ==
    LET uzs_str == AmountToUzs(amount_str, rate)
    IN  IF uzs_str = NoneText THEN whole ELSE uzs_str \o <<" ", "U", "Z", "S">>

\* Pass 1, re.sub(r"\$\s*(?P<amount>\d[\d\s_.,]*)", amount + "$"), scanning from i.
RECURSIVE NormalizeLeadingDollar(_, _)
NormalizeLeadingDollar(s, i) ==
    IF i > Len(s) THEN <<>>
    ELSE LET j == SpaceRunEnd(s, i + 1)
             k == AmountRunEnd(s, j)
         IN  IF s[i] = "$" /\ j <= Len(s) /\ IsDigit(s[j])
             THEN SubSeq(s, j, k - 1) \o <<"$">> \o NormalizeLeadingDollar(s, k)
             ELSE <<s[i]>> \o NormalizeLeadingDollar(s, i + 1)

\* Pass 2, re.sub(r"(?P<amount>\d[\d\s_.,]*)\s*\$", convert_trailing_dollar),
\* scanning from i.  The greedy amount run takes all of [\d\s_.,]*, so a match
\* at a digit needs "$" right after the run.
RECURSIVE ConvertTrailingDollar(_, _, _)
ConvertTrailingDollar(s, i, rate) ==
    IF i > Len(s) THEN <<>>
    ELSE LET k == AmountRunEnd(s, i)
         IN  IF IsDigit(s[i]) /\ k <= Len(s) /\ s[k] = "$"
             THEN ConvertMatch(SubSeq(s, i, k), SubSeq(s, i, k - 1), rate)
                      \o ConvertTrailingDollar(s, k + 1, rate)
             ELSE <<s[i]>> \o ConvertTrailingDollar(s, i + 1, rate)

\* _has_plus_before(s, idx), idx being the 1-based index of the match start.
RECURSIVE HasPlusBefore(_, _)
HasPlusBefore(s, idx) ==
    IF idx - 1 >= 1 /\ IsSpace(s[idx - 1]) THEN HasPlusBefore(s, idx - 1)
    ELSE idx - 1 >= 1 /\ s[idx - 1] = "+"

\* (?<!\+) at index i.
NoPlusRightBefore(s, i) == i = 1 \/ s[i - 1] # "+"

\* (?!\s*(?:UZS|usd|USD|\$)) at index e, the index after the candidate match.
NotMarkerSuffixed(s, e) ==
    LET j == SpaceRunEnd(s, e)
    IN  ~ \/ StartsWithAt(s, j, <<"U", "Z", "S">>)
          \/ StartsWithAt(s, j, <<"u", "s", "d">>)
          \/ StartsWithAt(s, j, <<"U", "S", "D">>)
          \/ StartsWithAt(s, j, <<"$">>)

\* Number of consecutive "[ _.,]\d{3}" groups starting at index p.
RECURSIVE GroupCount(_, _)
GroupCount(s, p) ==
    IF /\ p + 3 <= Len(s)
       /\ IsGroupSep(s[p])
       /\ IsDigit(s[p + 1]) /\ IsDigit(s[p + 2]) /\ IsDigit(s[p + 3])
    THEN 1 + GroupCount(s, p + 4)
    ELSE 0

\* End (index after) of the match of
\* (?<!\+)(?P<amount>\d{1,3}(?:[ _.,]\d{3})+)(?!\s*(?:UZS|usd|USD|\$)) at i, 0 if
\* there is none.  \d{1,3} must be followed by a separator, so the digit run
\* from i has at most 3 digits; the group repeats greedily and backtracks to
\* fewer repetitions, at least one, while the lookahead rejects the end.
GroupedMatchEnd(s, i) ==
    LET p == DigitRunEnd(s, i)
        ends == {p + 4 * n : n \in 1 .. GroupCount(s, p)}
        ok == {e \in ends : NotMarkerSuffixed(s, e)}
    IN  IF i <= Len(s) /\ IsDigit(s[i]) /\ NoPlusRightBefore(s, i) /\ p - i <= 3 /\ ok # {}
        THEN CHOOSE e \in ok : \A f \in ok : f <= e
        ELSE 0

\* The callback of passes 3 and 4 on the match s[i .. e-1]; text is the string
\* the pass scans.
ConvertPlain(s, i, e, rate) ==
    IF HasPlusBefore(s, i) THEN SubSeq(s, i, e - 1)
    ELSE ConvertMatch(SubSeq(s, i, e - 1), SubSeq(s, i, e - 1), rate)

\* Pass 3, re.sub of the grouped pattern with convert_plain_grouped, from i.
RECURSIVE ConvertPlainGrouped(_, _, _)
ConvertPlainGrouped(s, i, rate) ==
    IF i > Len(s) THEN <<>>
    ELSE LET e == GroupedMatchEnd(s, i)
         IN  IF e # 0
             THEN ConvertPlain(s, i, e, rate) \o ConvertPlainGrouped(s, e, rate)
             ELSE <<s[i]>> \o ConvertPlainGrouped(s, i + 1, rate)

\* End of the match of (?<!\+)(?P<amount>\d{5,})(?!\s*(?:UZS|usd|USD|\$)) at i,
\* 0 if there is none: the longest run of 5 or more digits from i whose end the
\* lookahead accepts.
BigMatchEnd(s, i) ==
    LET p == DigitRunEnd(s, i)
        ok == {e \in i + 5 .. p : NotMarkerSuffixed(s, e)}
    IN  IF i <= Len(s) /\ IsDigit(s[i]) /\ NoPlusRightBefore(s, i) /\ ok # {}
        THEN CHOOSE e \in ok : \A f \in ok : f <= e
        ELSE 0

\* Pass 4, re.sub of the ungrouped pattern with convert_plain_big, from i.
RECURSIVE ConvertPlainBig(_, _, _)
ConvertPlainBig(s, i, rate) ==
    IF i > Len(s) THEN <<>>
    ELSE LET e == BigMatchEnd(s, i)
         IN  IF e # 0
             THEN ConvertPlain(s, i, e, rate) \o ConvertPlainBig(s, e, rate)
             ELSE <<s[i]>> \o ConvertPlainBig(s, i + 1, rate)

\* A _convert_prices without the return after pass 2: passes 3 and 4 always run.
ConvertPricesAllPasses(text, rate) ==
    IF text = <<>> THEN text
    ELSE IF rate = NoRate THEN text
    ELSE LET original_text == NormalizeLeadingDollar(text, 1)
             dollar == ConvertTrailingDollar(original_text, 1, rate)
         IN  ConvertPlainBig(ConvertPlainGrouped(dollar, 1, rate), 1, rate)

\* A _convert_prices that tests the rate only after pass 1 has normalized the
\* leading dollars.
ConvertPricesLateRateTest(text, rate) ==
    IF text = <<>> THEN text
    ELSE LET original_text == NormalizeLeadingDollar(text, 1)
         IN  IF rate = NoRate THEN original_text
             ELSE LET dollar == ConvertTrailingDollar(original_text, 1, rate)
                  IN  IF dollar # original_text THEN dollar
                      ELSE ConvertPlainBig(ConvertPlainGrouped(dollar, 1, rate), 1, rate)

\* _convert_prices(text) with USD_TO_UZS_RATE = rate.
ConvertPrices(text, rate) ==
    IF text = <<>> THEN text
    ELSE IF rate = NoRate THEN text
    ELSE LET original_text == NormalizeLeadingDollar(text, 1)
             dollar == ConvertTrailingDollar(original_text, 1, rate)
         IN  IF dollar # original_text THEN dollar
             ELSE ConvertPlainBig(ConvertPlainGrouped(dollar, 1, rate), 1, rate)

\* ------------------------------------------------------------------- inputs

\* m.media of a message without media (None).
NoMedia == "None"

Media == {"m1", "m2"}

\* msg.message of the events of the state machine ("" also stands for None).
Texts == {<<>>, <<"5", "$">>}

\* The members of an album batch: a service message (it carries media and text
\* so that skipping it shows), two photos without text, a photo with a
\* caption, and a text without media.
Service == [action |-> TRUE, media |-> "m2", message |-> <<"5", "$">>]

Photo1 == [action |-> FALSE, media |-> "m1", message |-> <<>>]

Photo2 == [action |-> FALSE, media |-> "m2", message |-> <<>>]

Captioned == [action |-> FALSE, media |-> "m1", message |-> <<"5", "$">>]

TextOnly == [action |-> FALSE, media |-> NoMedia, message |-> <<"5", "$">>]

\* event.messages of an Album event.
Batches ==
    { <<>>, <<Service>>, <<Photo1>>, <<Photo2, Photo1>>, <<Photo2, Captioned>>,
      <<Service, Photo1, TextOnly>> }

\* The Album events: every batch for group 1, an album without and one with a
\* caption for group 2, and one without grouped_id.
AlbumEvents ==
    {<<1, messages>> : messages \in Batches}
        \cup {<<2, <<Photo1>> >>, <<2, <<Photo2, Captioned>> >>, <<NoGid, <<Photo1>> >>}

\* The texts of the operator's messages, and what (msg.message or "")
\* .strip().lower() makes of each.  "<stop-ru>" and "<start-ru>" stand for the
\* two Cyrillic command words.
ControlTexts == {"/stop", " STOP\n", "Start", "hello"}

StripLower(t) ==
    CASE t = " STOP\n" -> "stop"
      [] t = "Start" -> "start"
      [] OTHER -> t

StopWords == {"/stop", "stop", "<stop-ru>"}

StartWords == {"/start", "start", "<start-ru>"}

\* What the quote service answers: a transport error, a status other than 200,
\* a body that is no JSON, a body without "quotes", quotes without "USDUZS", a
\* USDUZS that float() rejects, and a numeric USDUZS (held times RateScale).
Responses ==
    { [transport |-> "error", status |-> 0,   json |-> "none",      quote |-> "none"],
      [transport |-> "ok",    status |-> 500, json |-> "none",      quote |-> "none"],
      [transport |-> "ok",    status |-> 200, json |-> "invalid",   quote |-> "none"],
      [transport |-> "ok",    status |-> 200, json |-> "no-quotes", quote |-> "none"],
      [transport |-> "ok",    status |-> 200, json |-> "quotes",    quote |-> "missing"],
      [transport |-> "ok",    status |-> 200, json |-> "quotes",    quote |-> "abc"],
      [transport |-> "ok",    status |-> 200, json |-> "quotes",    quote |-> "3"] }

\* float(uzs_rate_raw) times RateScale; NoRate when float() raises.
QuoteToRate(q) == IF q = "3" THEN 3 ELSE NoRate

\* The rates the environment variable USD_TO_UZS_RATE can set at start: unset
\* (or not a number), or 1.5.
InitialRates == {NoRate, 3}

\* The seconds of a day, in units of a day.
DayLen == 1

\* --------------------------------------------------------------------- state

VARIABLES
    FORWARD_ENABLED,      \* the gate
    PROCESSED_ALBUM_IDS,  \* set of group ids
    PENDING_ALBUMS,       \* group id -> list of media
    USD_TO_UZS_RATE,      \* NoRate or the rate times RateScale
    sends,                \* the send_file / send_message calls issued, in order
    acks,                 \* the event.reply calls issued, in order
    ev,                   \* the last step taken, with the handler's locals
    nsteps,               \* number of steps taken, up to MaxSteps
    schedPc,              \* where _schedule_usd_rate_updates stands
    sleep_seconds         \* its local sleep_seconds while it sleeps

vars == <<FORWARD_ENABLED, PROCESSED_ALBUM_IDS, PENDING_ALBUMS, USD_TO_UZS_RATE,
          sends, acks, ev, nsteps, schedPc, sleep_seconds>>

Init ==
    /\ FORWARD_ENABLED = TRUE
    /\ PROCESSED_ALBUM_IDS = {}
    /\ PENDING_ALBUMS = [g \in {} |-> <<>>]
    /\ USD_TO_UZS_RATE \in InitialRates
    /\ sends = <<>>
    /\ acks = <<>>
    /\ ev = [handler |-> "none"]
    /\ nsteps = 0
    /\ schedPc = "start"
    /\ sleep_seconds = 0

\* ------------------------------------------------------------ outbound calls

\* A call of client.send_file / client.send_message that has not returned yet.
Call(op, handler, gid, files, caption) ==
    [op |-> op, handler |-> handler, gid |-> gid, files |-> files,
     caption |-> caption, status |-> "pending"]

\* A handler that takes the group out of PROCESSED_ALBUM_IDS again when its
\* send fails, so that a later event sends the album once more.
SendReturnsForgetting(i, outcome) ==
    /\ nsteps < MaxSteps
    /\ nsteps' = nsteps + 1
    /\ sends[i].status = "pending"
    /\ sends' = [sends EXCEPT ![i].status = outcome]
    /\ ev' = [handler |-> "return", of |-> sends[i].handler, call |-> i,
              outcome |-> outcome]
    /\ PROCESSED_ALBUM_IDS' = IF outcome = "failed"
                              THEN PROCESSED_ALBUM_IDS \ {sends[i].gid}
                              ELSE PROCESSED_ALBUM_IDS
    /\ UNCHANGED <<FORWARD_ENABLED, PENDING_ALBUMS, USD_TO_UZS_RATE,
                   acks, schedPc, sleep_seconds>>

\* An awaited send returns, or raises RPCError, which the handler logs.
SendReturns(i, outcome) ==
    /\ nsteps < MaxSteps
    /\ nsteps' = nsteps + 1
    /\ sends[i].status = "pending"
    /\ sends' = [sends EXCEPT ![i].status = outcome]
    /\ ev' = [handler |-> "return", of |-> sends[i].handler, call |-> i,
              outcome |-> outcome]
    /\ UNCHANGED <<FORWARD_ENABLED, PROCESSED_ALBUM_IDS, PENDING_ALBUMS, USD_TO_UZS_RATE,
                   acks, schedPc, sleep_seconds>>

\* --------------------------------------------------------------- forward_handler

\* forward_handler without its gate: the check of FORWARD_ENABLED left out.
ForwardGateLeftOut == TRUE

ForwardGateOpen == FORWARD_ENABLED

forward_handler(msg) ==
    /\ nsteps < MaxSteps
    /\ nsteps' = nsteps + 1
    /\ ev' = [handler |-> "forward_handler", action |-> msg.action,
              gid |-> msg.grouped_id, media |-> msg.media, text |-> msg.message,
              enabled |-> FORWARD_ENABLED]
    /\ IF msg.action \/ msg.grouped_id # NoGid \/ ~ForwardGateOpen
       THEN sends' = sends
       ELSE LET text == ConvertPrices(msg.message, USD_TO_UZS_RATE)
            IN  IF msg.media # NoMedia
                THEN sends' = Append(sends, Call("send_file", "forward_handler", NoGid,
                                                 <<msg.media>>, text))
                ELSE IF msg.message # <<>>
                THEN sends' = Append(sends, Call("send_message", "forward_handler", NoGid,
                                                 <<>>, text))
                ELSE sends' = sends
    /\ UNCHANGED <<FORWARD_ENABLED, PROCESSED_ALBUM_IDS, PENDING_ALBUMS, USD_TO_UZS_RATE,
                   acks, schedPc, sleep_seconds>>

\* ----------------------------------------------------------------- album_handler

\* The loop over event.messages: the media of the messages that are no service
\* messages, in order.
RECURSIVE CollectFiles(_)
CollectFiles(messages) ==
    IF messages = <<>> THEN <<>>
    ELSE LET m == Head(messages)
         IN  (IF ~m.action /\ m.media # NoMedia THEN <<m.media>> ELSE <<>>)
                 \o CollectFiles(Tail(messages))

\* The loop over event.messages: the first non-empty text of a message that is
\* no service message.
RECURSIVE CollectCaption(_)
CollectCaption(messages) ==
    IF messages = <<>> THEN <<>>
    ELSE LET m == Head(messages)
         IN  IF ~m.action /\ m.message # <<>> THEN m.message
             ELSE CollectCaption(Tail(messages))

AlbumGateOpen == FORWARD_ENABLED

\* album_handler without its duplicate check: no group counts as processed.
AlbumDuplicateUnchecked(gid) == FALSE

\* `gid in PROCESSED_ALBUM_IDS` of album_handler.
AlbumIsDuplicate(gid) == gid \in PROCESSED_ALBUM_IDS

\* PENDING_ALBUMS[gid] = files
PendingPut(pending, gid, files) ==
    [g \in DOMAIN pending \cup {gid} |-> IF g = gid THEN files ELSE pending[g]]

\* PENDING_ALBUMS after PENDING_ALBUMS.pop(gid, None)
PendingPop(pending, gid) ==
    [g \in DOMAIN pending \ {gid} |-> pending[g]]

album_handler(gid, messages) ==
    LET files == CollectFiles(messages)
        caption == CollectCaption(messages)
    IN  /\ nsteps < MaxSteps
        /\ nsteps' = nsteps + 1
        /\ ev' = [handler |-> "album_handler", gid |-> gid, files |-> files,
                  caption |-> caption, enabled |-> FORWARD_ENABLED]
        /\ IF messages = <<>> \/ ~AlbumGateOpen \/ files = <<>>
           THEN UNCHANGED <<PENDING_ALBUMS, PROCESSED_ALBUM_IDS, sends>>
           ELSE IF gid # NoGid /\ caption = <<>>
           THEN /\ PENDING_ALBUMS' = PendingPut(PENDING_ALBUMS, gid, files)
                /\ UNCHANGED <<PROCESSED_ALBUM_IDS, sends>>
           ELSE IF gid # NoGid /\ AlbumIsDuplicate(gid)
           THEN UNCHANGED <<PENDING_ALBUMS, PROCESSED_ALBUM_IDS, sends>>
           ELSE /\ PROCESSED_ALBUM_IDS' =
                       IF gid # NoGid THEN PROCESSED_ALBUM_IDS \cup {gid}
                       ELSE PROCESSED_ALBUM_IDS
                /\ sends' = Append(sends, Call("send_file", "album_handler", gid, files,
                                               ConvertPrices(caption, USD_TO_UZS_RATE)))
                /\ UNCHANGED PENDING_ALBUMS
        /\ UNCHANGED <<FORWARD_ENABLED, USD_TO_UZS_RATE, acks, schedPc, sleep_seconds>>

\* ---------------------------------------------------- album_caption_edited_handler

\* album_caption_edited_handler without its gate.
EditGateLeftOut == TRUE

EditGateOpen == FORWARD_ENABLED

\* album_caption_edited_handler without its duplicate check.
EditDuplicateUnchecked(gid) == FALSE

\* `gid in PROCESSED_ALBUM_IDS` of album_caption_edited_handler.
EditIsDuplicate(gid) == gid \in PROCESSED_ALBUM_IDS

\* The edited text used as the caption as it came, prices not converted.
EditCaptionUnconverted(message) == message

\* caption = _convert_prices(msg.message or "") of album_caption_edited_handler.
EditCaption(message) == ConvertPrices(message, USD_TO_UZS_RATE)

album_caption_edited_handler(msg) ==
    LET gid == msg.grouped_id
    IN  /\ nsteps < MaxSteps
        /\ nsteps' = nsteps + 1
        /\ ev' = [handler |-> "album_caption_edited_handler", action |-> msg.action,
                  gid |-> gid, text |-> msg.message, enabled |-> FORWARD_ENABLED]
        /\ IF ~EditGateOpen \/ msg.action \/ gid = NoGid \/ msg.message = <<>>
           THEN UNCHANGED <<PENDING_ALBUMS, PROCESSED_ALBUM_IDS, sends>>
           ELSE /\ PENDING_ALBUMS' = PendingPop(PENDING_ALBUMS, gid)
                /\ IF gid \notin DOMAIN PENDING_ALBUMS \/ PENDING_ALBUMS[gid] = <<>>
                      \/ EditIsDuplicate(gid)
                   THEN UNCHANGED <<PROCESSED_ALBUM_IDS, sends>>
                   ELSE /\ PROCESSED_ALBUM_IDS' = PROCESSED_ALBUM_IDS \cup {gid}
                        /\ sends' = Append(sends,
                               Call("send_file", "album_caption_edited_handler", gid,
                                    PENDING_ALBUMS[gid], EditCaption(msg.message)))
        /\ UNCHANGED <<FORWARD_ENABLED, USD_TO_UZS_RATE, acks, schedPc, sleep_seconds>>

\* --------------------------------------------------------------- control_handler

\* A control_handler that undoes the change of the gate when the reply fails.
ReplyReturnsUndoing(i, outcome) ==
    /\ nsteps < MaxSteps
    /\ nsteps' = nsteps + 1
    /\ acks[i].status = "pending"
    /\ acks' = [acks EXCEPT ![i].status = outcome]
    /\ ev' = [handler |-> "return", of |-> "control_handler", call |-> i,
              outcome |-> outcome]
    /\ FORWARD_ENABLED' = IF outcome = "failed" THEN ~FORWARD_ENABLED
                          ELSE FORWARD_ENABLED
    /\ UNCHANGED <<PROCESSED_ALBUM_IDS, PENDING_ALBUMS, USD_TO_UZS_RATE,
                   sends, schedPc, sleep_seconds>>

\* An awaited event.reply returns, or raises RPCError, which the handler passes.
ReplyReturns(i, outcome) ==
    /\ nsteps < MaxSteps
    /\ nsteps' = nsteps + 1
    /\ acks[i].status = "pending"
    /\ acks' = [acks EXCEPT ![i].status = outcome]
    /\ ev' = [handler |-> "return", of |-> "control_handler", call |-> i,
              outcome |-> outcome]
    /\ UNCHANGED <<FORWARD_ENABLED, PROCESSED_ALBUM_IDS, PENDING_ALBUMS, USD_TO_UZS_RATE,
                   sends, schedPc, sleep_seconds>>

\* The stop branch without its early return: a stop is never a no-op.
StopNeverNoOp == FALSE

\* `if not FORWARD_ENABLED: return` of the stop branch.
StopIsNoOp == ~FORWARD_ENABLED

\* `if FORWARD_ENABLED: return` of the start branch.
StartIsNoOp == FORWARD_ENABLED

control_handler(is_private, out, message) ==
    LET text == StripLower(message)
    IN  /\ nsteps < MaxSteps
        /\ nsteps' = nsteps + 1
        /\ ev' = [handler |-> "control_handler", is_private |-> is_private, out |-> out,
                  command |-> text, enabled |-> FORWARD_ENABLED]
        /\ IF ~is_private \/ ~out
           THEN UNCHANGED <<FORWARD_ENABLED, acks>>
           ELSE IF text \in StopWords
           THEN IF StopIsNoOp
                THEN UNCHANGED <<FORWARD_ENABLED, acks>>
                ELSE /\ FORWARD_ENABLED' = FALSE
                     /\ acks' = Append(acks, [text |-> "Forwarding stopped.",
                                              status |-> "pending"])
           ELSE IF text \in StartWords
           THEN IF StartIsNoOp
                THEN UNCHANGED <<FORWARD_ENABLED, acks>>
                ELSE /\ FORWARD_ENABLED' = TRUE
                     /\ acks' = Append(acks, [text |-> "Forwarding started.",
                                              status |-> "pending"])
           ELSE UNCHANGED <<FORWARD_ENABLED, acks>>
        /\ UNCHANGED <<PROCESSED_ALBUM_IDS, PENDING_ALBUMS, USD_TO_UZS_RATE, sends,
                       schedPc, sleep_seconds>>

\* ------------------------------------- _update_usd_rate_once, the refresh task

\* A refresh that clears the rate whenever it does not get a quote.
UpdatedRateOrNone(rate, resp) ==
    IF /\ resp.transport = "ok" /\ resp.status = 200 /\ resp.json = "quotes"
       /\ resp.quote # "missing" /\ QuoteToRate(resp.quote) # NoRate
    THEN QuoteToRate(resp.quote)
    ELSE NoRate

\* USD_TO_UZS_RATE after _update_usd_rate_once got the response resp.
UpdatedRate(rate, resp) ==
    IF resp.transport # "ok" THEN rate
    ELSE IF resp.status # 200 THEN rate
    ELSE IF resp.json = "invalid" THEN rate
    ELSE IF resp.json = "no-quotes" \/ resp.quote = "missing" THEN rate
    ELSE IF QuoteToRate(resp.quote) = NoRate THEN rate
    ELSE QuoteToRate(resp.quote)

\* The refresh task takes one more step; the count stops at MaxSteps.
TaskStep(at) ==
    /\ nsteps' = IF nsteps < MaxSteps THEN nsteps + 1 ELSE nsteps
    /\ ev' = [handler |-> "_schedule_usd_rate_updates", at |-> at]

\* sleep_seconds at `now` seconds after midnight.
SleepSeconds(now) ==
    IF DayLen - now <= 0 THEN DayLen ELSE DayLen - now

\* The task starts: the first _update_usd_rate_once sends its request.
SchedStart ==
    /\ schedPc = "start"
    /\ schedPc' = "fetching"
    /\ TaskStep("start")
    /\ UNCHANGED <<FORWARD_ENABLED, PROCESSED_ALBUM_IDS, PENDING_ALBUMS, USD_TO_UZS_RATE,
                   sends, acks, sleep_seconds>>

\* A refresh whose failure escapes _update_usd_rate_once and ends the task.
AfterRefreshRaising(resp) ==
    IF UpdatedRateOrNone(NoRate, resp) = NoRate THEN "stopped" ELSE "sleeping"

\* Where the task is after _update_usd_rate_once got resp: the function
\* returns None on every path, so the loop goes on to its sleep.
AfterRefresh(resp) == "sleeping"

\* The request of _update_usd_rate_once ends with resp; the function returns
\* and the loop goes to sleep until the next midnight.
RefreshReturns(resp, now) ==
    /\ schedPc = "fetching"
    /\ USD_TO_UZS_RATE' = UpdatedRate(USD_TO_UZS_RATE, resp)
    /\ nsteps' = IF nsteps < MaxSteps THEN nsteps + 1 ELSE nsteps
    /\ ev' = [handler |-> "_update_usd_rate_once", resp |-> resp]
    /\ sleep_seconds' = SleepSeconds(now)
    /\ schedPc' = AfterRefresh(resp)
    /\ UNCHANGED <<FORWARD_ENABLED, PROCESSED_ALBUM_IDS, PENDING_ALBUMS, sends, acks>>

\* asyncio.sleep returns: the next _update_usd_rate_once sends its request.
SchedWake ==
    /\ schedPc = "sleeping"
    /\ schedPc' = "fetching"
    /\ sleep_seconds' = 0
    /\ TaskStep("wake")
    /\ UNCHANGED <<FORWARD_ENABLED, PROCESSED_ALBUM_IDS, PENDING_ALBUMS, USD_TO_UZS_RATE,
                   sends, acks>>

\* ------------------------------------------------------------- specification

\* The NewMessage events of the source channels: a photo with a caption, a
\* text, a message with neither and a service message.
ForwardMessages ==
    { [action |-> FALSE, grouped_id |-> NoGid, media |-> "m1",    message |-> <<"5", "$">>],
      [action |-> FALSE, grouped_id |-> NoGid, media |-> NoMedia, message |-> <<"5", "$">>],
      [action |-> FALSE, grouped_id |-> NoGid, media |-> NoMedia, message |-> <<>>],
      [action |-> TRUE,  grouped_id |-> NoGid, media |-> "m1",    message |-> <<"5", "$">>] }

\* The MessageEdited events: an edit of a member of group 1 with and without
\* text, of a member of group 2, of a message of no group, and an edited
\* service message.
EditMessages ==
    { [action |-> FALSE, grouped_id |-> 1,     message |-> <<"5", "$">>],
      [action |-> FALSE, grouped_id |-> 1,     message |-> <<>>],
      [action |-> FALSE, grouped_id |-> 2,     message |-> <<"5", "$">>],
      [action |-> FALSE, grouped_id |-> NoGid, message |-> <<"5", "$">>],
      [action |-> TRUE,  grouped_id |-> 1,     message |-> <<"5", "$">>] }

\* The NewMessage events control_handler sees: the operator's own private
\* messages, a private message of somebody else, and a message in a chat.
ControlEvents ==
    {<<TRUE, TRUE, t>> : t \in ControlTexts}
        \cup {<<TRUE, FALSE, "/stop">>, <<FALSE, TRUE, "Start">>}

Outcomes == {"ok", "failed"}

\* The steps of the handlers and of the calls they await.
HandlerNext ==
    \/ \E msg \in ForwardMessages : forward_handler(msg)
    \/ \E e \in AlbumEvents : album_handler(e[1], e[2])
    \/ \E msg \in EditMessages : album_caption_edited_handler(msg)
    \/ \E e \in ControlEvents : control_handler(e[1], e[2], e[3])
    \/ \E i \in DOMAIN sends, outcome \in Outcomes : SendReturns(i, outcome)
    \/ \E i \in DOMAIN acks, outcome \in Outcomes : ReplyReturns(i, outcome)

\* The steps of the refresh task.
TaskNext ==
    \/ SchedStart
    \/ \E resp \in Responses, now \in 0 .. DayLen - 1 : RefreshReturns(resp, now)
    \/ SchedWake

\* Every run of at most MaxSteps steps.
Next ==
    \/ HandlerNext
    \/ nsteps < MaxSteps /\ TaskNext

Spec == Init /\ [][Next]_vars

\* The same runs with the refresh task running on after them, as it does
\* until the process ends.  The event loop resumes every task that can run:
\* the task starts, its request ends and its sleep ends.
FairNext ==
    \/ HandlerNext
    \/ TaskNext

FairSpec ==
    /\ Init
    /\ [][FairNext]_vars
    /\ WF_vars(SchedStart)
    /\ WF_vars(\E resp \in Responses, now \in 0 .. DayLen - 1 : RefreshReturns(resp, now))
    /\ WF_vars(SchedWake)

\* ---------------------------------------------- _convert_prices on its own

\* The longest text of the exhaustive part of the inputs of _convert_prices.
MaxTextLen == 5

\* The characters of the exhaustive texts: digits, the space that groups
\* thousands, the dollar marker and the plus sign.
ConvAlphabet == {"1", "0", " ", "$", "+"}

\* All the texts over ConvAlphabet of length n.
RECURSIVE TextsOfLen(_)
TextsOfLen(n) ==
    IF n = 0 THEN {<<>>}
    ELSE {<<c>> \o t : c \in ConvAlphabet, t \in TextsOfLen(n - 1)}

\* What can stand before an amount: nothing, a plus sign with and without
\* space, a word, a leading dollar marker with and without space.
ConvPrefixes ==
    { <<>>,
      <<"+">>,
      <<"+", " ">>,
      <<"a", " ">>,
      <<"$">>,
      <<"$", " ">> }

\* Amounts: short, of four digits, of five and six digits without separators,
\* grouped by space, dot and underscore, of two groups.
ConvAmounts ==
    { <<"3">>,
      <<"4", "0", "0">>,
      <<"5", "0", "0", "0">>,
      <<"5", "0", "0", "0", "0">>,
      <<"1", "0", "0", "0", "0", "0">>,
      <<"5", "0", "0", "0", "0", "0">>,
      <<"1", "5", "0", " ", "0", "0", "0">>,
      <<"1", "0", "0", ".", "0", "0", "0">>,
      <<"1", "_", "0", "0", "0">>,
      <<"1", " ", "5", "0", "0", " ", "0", "0", "0">> }

\* What can follow an amount: nothing, the dollar marker with and without
\* space, a currency code with and without space, a word.
ConvSuffixes ==
    { <<>>,
      <<"$">>,
      <<" ", "$">>,
      <<" ", "U", "Z", "S">>,
      <<"U", "S", "D">>,
      <<" ", "u", "s", "d">>,
      <<" ", "b">> }

\* Texts with two amounts, one of them marked with a dollar.
ConvTwoAmounts ==
    { <<"5", "$", " ", "1", "0", "0", "0", "0">>,
      <<"1", "0", "0", "0", "0", " ", "5", "$">>,
      <<"1", "5", "0", " ", "0", "0", "0", " ", "a", "n", "d", " ", "$", " ", "3">>,
      <<"$", "4", "0", "0", " ", "a", " ", "1", " ", "0", "0", "0">>,
      <<"1", " ", "0", "0", "0", " ", "5", "0", "0", "0", "0">> }

\* The rates of these texts: none, 0.5, 1.5 and 2.
ConvRates == {NoRate, 1, 3, 4}

\* The texts converted at the rate 12000.
Texts12000 ==
    { <<"p", "r", "i", "c", "e", " ", "4", "0", "0", "$">>,
      <<"4", "0", "0", "$">>,
      <<"$", "4", "0", "0">>,
      <<"a", " ", "4", "0", "0", " ", "$", " ", "b">>, <<"$", "4", "0", "0", " ", "b">>,
      <<"1", "5", "0", " ", "0", "0", "0">>,
      <<"a", " ", "1", "5", "0", " ", "0", "0", "0", " ", "b">>,
      <<"b", "u", "d", "g", "e", "t", " ", "1", "5", "0", " ", "0", "0", "0", ",", " ", "+", "5", "0", "0", "0", " ", "b", "o", "n", "u", "s">>,
      <<"+", "5", "0", "0", "0">>,
      <<"+", "1", "5", "0", " ", "0", "0", "0">>,
      <<"+", "5", "0", "0", "0", "0", "0">>,
      <<"1", "0", "0", "0", "0", "0", " ", "U", "Z", "S">>,
      <<"1", " ", "5", "0", "0", " ", "0", "0", "0", " ", "U", "Z", "S">>,
      <<"5", "0", "0", "0", "0">>,
      <<"1", "2", ".", "5", "0", "0", "$">> }

\* 12000 as a rate of the model.
Rate12000 == 12000 * RateScale

\* The calls of _convert_prices: the text and the value of USD_TO_UZS_RATE.
ConvInputs ==
    (((UNION {TextsOfLen(n) : n \in 0 .. MaxTextLen})
        \cup {p \o a \o x : p \in ConvPrefixes, a \in ConvAmounts, x \in ConvSuffixes}
        \cup ConvTwoAmounts) \X ConvRates)
      \cup (Texts12000 \X {Rate12000})

\* A call of _convert_prices is about to be made.
ConvInit ==
    /\ FORWARD_ENABLED = TRUE
    /\ PROCESSED_ALBUM_IDS = {}
    /\ PENDING_ALBUMS = [g \in {} |-> <<>>]
    /\ sends = <<>>
    /\ acks = <<>>
    /\ nsteps = 0
    /\ schedPc = "start"
    /\ sleep_seconds = 0
    /\ \E in \in ConvInputs :
           /\ USD_TO_UZS_RATE = in[2]
           /\ ev = [handler |-> "caller", text |-> in[1]]

\* The texts after pass 1 (original_text) and after pass 2 of a call that
\* gets as far as the passes; the text itself for a call that returns before.
AfterPass1(text, rate) ==
    IF text = <<>> \/ rate = NoRate THEN text ELSE NormalizeLeadingDollar(text, 1)

AfterPass2(text, rate) ==
    IF text = <<>> \/ rate = NoRate THEN text
    ELSE ConvertTrailingDollar(NormalizeLeadingDollar(text, 1), 1, rate)

\* _convert_prices(text) runs; the texts after pass 1 and pass 2 and the
\* returned text are kept.
convert_prices ==
    /\ ev.handler = "caller"
    /\ ev' = [handler |-> "_convert_prices",
              text |-> ev.text,
              original_text |-> AfterPass1(ev.text, USD_TO_UZS_RATE),
              dollar |-> AfterPass2(ev.text, USD_TO_UZS_RATE),
              result |-> ConvertPrices(ev.text, USD_TO_UZS_RATE)]
    /\ UNCHANGED <<FORWARD_ENABLED, PROCESSED_ALBUM_IDS, PENDING_ALBUMS, USD_TO_UZS_RATE,
                   sends, acks, nsteps, schedPc, sleep_seconds>>

ConvNext == convert_prices

ConvSpec == ConvInit /\ [][ConvNext]_vars

\* ------------------------------------------------------------------- properties

\* The step taken is the handling of one event by handler h.
Handled(h) == nsteps' = nsteps + 1 /\ ev'.handler = h

\* The indices of the sends issued for group g.
SendsFor(g) == {i \in DOMAIN sends : sends[i].gid = g}

\* C1: for every album group id, whatever batch and caption-edit events refer
\* to it, whatever the gate does in between and while earlier sends are still
\* awaited, at most one send_file call is issued for it.
C1_AtMostOneSendPerGroup ==
    \A g \in Gids : Cardinality(SendsFor(g)) <= 1

\* C1 witness: the album of a group was sent on its batch, and while that send
\* is still awaited a caption edit for the same group was handled with the
\* gate open.
C1_Witness ==
    \E g \in Gids :
        /\ \E i \in SendsFor(g) :
               sends[i].handler = "album_handler" /\ sends[i].status = "pending"
        /\ ev.handler = "album_caption_edited_handler"
        /\ ev.gid = g /\ ev.text # <<>> /\ ~ev.action /\ ev.enabled

\* C2: no group id is at once a key of PENDING_ALBUMS and a member of
\* PROCESSED_ALBUM_IDS.
C2_PendingProcessedDisjoint ==
    DOMAIN PENDING_ALBUMS \cap PROCESSED_ALBUM_IDS = {}

\* C3: an album batch with media and no caption for a group, handled while the
\* gate is disabled, is buffered in PENDING_ALBUMS all the same.
C3_BufferedWhileDisabled ==
    (/\ ev.handler = "album_handler"
     /\ ev.gid \in Gids
     /\ ev.files # <<>>
     /\ ev.caption = <<>>
     /\ ~ev.enabled)
        => (ev.gid \in DOMAIN PENDING_ALBUMS /\ PENDING_ALBUMS[ev.gid] = ev.files)

\* C4: with the gate enabled, a batch with media and no caption for a group not
\* seen before issues no send and buffers its media; a caption edit with text
\* for a group so buffered issues the one send of the group, with the buffered
\* media and the rewritten text, records the group as processed and removes it
\* from the buffer.
C4_CaptionByEdit ==
    [][ /\ (/\ Handled("album_handler")
            /\ FORWARD_ENABLED
            /\ ev'.gid \in Gids
            /\ ev'.gid \notin PROCESSED_ALBUM_IDS
            /\ ev'.gid \notin DOMAIN PENDING_ALBUMS
            /\ ev'.files # <<>>
            /\ ev'.caption = <<>>)
               => /\ sends' = sends
                  /\ PROCESSED_ALBUM_IDS' = PROCESSED_ALBUM_IDS
                  /\ ev'.gid \in DOMAIN PENDING_ALBUMS'
                  /\ PENDING_ALBUMS'[ev'.gid] = ev'.files
        /\ (/\ Handled("album_caption_edited_handler")
            /\ FORWARD_ENABLED
            /\ ~ev'.action
            /\ ev'.text # <<>>
            /\ ev'.gid \in DOMAIN PENDING_ALBUMS
            /\ ev'.gid \notin PROCESSED_ALBUM_IDS)
               => /\ SendsFor(ev'.gid) = {}
                  /\ sends' = Append(sends,
                         [op |-> "send_file", handler |-> "album_caption_edited_handler",
                          gid |-> ev'.gid, files |-> PENDING_ALBUMS[ev'.gid],
                          caption |-> ConvertPrices(ev'.text, USD_TO_UZS_RATE),
                          status |-> "pending"])
                  /\ ev'.gid \in PROCESSED_ALBUM_IDS'
                  /\ ev'.gid \notin DOMAIN PENDING_ALBUMS' ]_vars

\* C4 witness: two steps were taken, a batch of two photos without caption
\* and the edit "5$" at rate 1.5; the only send is the one of the edit, with
\* the two photos and the caption "8 UZS".
C4_Witness ==
    /\ nsteps = 2
    /\ ev.handler = "album_caption_edited_handler"
    /\ Len(sends) = 1
    /\ sends[1].handler = "album_caption_edited_handler"
    /\ sends[1].gid = ev.gid
    /\ sends[1].files = <<"m2", "m1">>
    /\ sends[1].caption = <<"8", " ", "U", "Z", "S">>
    /\ ev.gid \in PROCESSED_ALBUM_IDS
    /\ ev.gid \notin DOMAIN PENDING_ALBUMS

\* C5: with the gate enabled, a batch with media and a caption for a group not
\* seen before issues the one send of the group while it is handled and
\* records the group as processed; a caption edit for a processed group
\* issues no send and leaves PROCESSED_ALBUM_IDS as it is.
C5_CaptionInBatch ==
    [][ /\ (/\ Handled("album_handler")
            /\ FORWARD_ENABLED
            /\ ev'.gid \in Gids
            /\ ev'.gid \notin PROCESSED_ALBUM_IDS
            /\ ev'.gid \notin DOMAIN PENDING_ALBUMS
            /\ ev'.files # <<>>
            /\ ev'.caption # <<>>)
               => /\ SendsFor(ev'.gid) = {}
                  /\ sends' = Append(sends,
                         [op |-> "send_file", handler |-> "album_handler",
                          gid |-> ev'.gid, files |-> ev'.files,
                          caption |-> ConvertPrices(ev'.caption, USD_TO_UZS_RATE),
                          status |-> "pending"])
                  /\ PROCESSED_ALBUM_IDS' = PROCESSED_ALBUM_IDS \cup {ev'.gid}
        /\ (/\ Handled("album_caption_edited_handler")
            /\ ev'.gid \in PROCESSED_ALBUM_IDS)
               => /\ sends' = sends
                  /\ PROCESSED_ALBUM_IDS' = PROCESSED_ALBUM_IDS ]_vars

\* C5 witness: a batch with a caption was sent, and a caption edit with text
\* for the same group was then handled with the gate open; the send of the
\* batch is the only one.
C5_Witness ==
    /\ nsteps = 2
    /\ ev.handler = "album_caption_edited_handler"
    /\ ev.text # <<>> /\ ~ev.action /\ ev.enabled
    /\ ev.gid \in PROCESSED_ALBUM_IDS
    /\ Len(sends) = 1
    /\ sends[1].handler = "album_handler"
    /\ sends[1].gid = ev.gid

\* C6: every send_message or send_file call is issued with FORWARD_ENABLED
\* true; while it is false no event adds a call.
C6_NoSendWhileDisabled ==
    [][ Len(sends') > Len(sends) => FORWARD_ENABLED /\ FORWARD_ENABLED' ]_vars

\* C6 witness: with the gate disabled a photo with a caption arrived in a
\* source channel and nothing was sent.
C6_Witness ==
    /\ ~FORWARD_ENABLED
    /\ ev.handler = "forward_handler"
    /\ ~ev.enabled /\ ~ev.action /\ ev.gid = NoGid /\ ev.media # NoMedia
    /\ sends = <<>>

\* The step taken is control_handler on a message of the operator (private
\* and outgoing) whose text is one of words.
Commanded(words) ==
    /\ Handled("control_handler")
    /\ ev'.is_private /\ ev'.out
    /\ ev'.command \in words

\* C7: the gate starts enabled; a stop command while disabled and a start
\* command while enabled change nothing and reply nothing; a reply is issued
\* in exactly the steps that flip the gate, "Forwarding stopped." for enabled
\* to disabled and "Forwarding started." for disabled to enabled.
C7_GateCommands ==
    /\ [](nsteps = 0 => FORWARD_ENABLED)
    /\ [][ /\ (Commanded(StopWords) /\ ~FORWARD_ENABLED)
                  => (FORWARD_ENABLED' = FORWARD_ENABLED /\ acks' = acks)
           /\ (Commanded(StartWords) /\ FORWARD_ENABLED)
                  => (FORWARD_ENABLED' = FORWARD_ENABLED /\ acks' = acks)
           /\ (Commanded(StopWords) /\ FORWARD_ENABLED)
                  => (~FORWARD_ENABLED' /\ Len(acks') = Len(acks) + 1)
           /\ (Commanded(StartWords) /\ ~FORWARD_ENABLED)
                  => (FORWARD_ENABLED' /\ Len(acks') = Len(acks) + 1)
           /\ (Len(acks') # Len(acks)) <=> (FORWARD_ENABLED' # FORWARD_ENABLED)
           /\ (Len(acks') # Len(acks))
                  => acks' = Append(acks,
                         [text |-> IF FORWARD_ENABLED' THEN "Forwarding started."
                                   ELSE "Forwarding stopped.",
                          status |-> "pending"]) ]_vars

\* C7 witness: the operator's stop command was handled while the gate was
\* already disabled, and the one reply there is answers the earlier stop.
C7_Witness ==
    /\ ev.handler = "control_handler"
    /\ ev.is_private /\ ev.out
    /\ ev.command \in StopWords
    /\ ~ev.enabled
    /\ ~FORWARD_ENABLED
    /\ Len(acks) = 1

\* C8: the gate has the value the last acknowledged command gave it, whether
\* the reply is still awaited, was delivered, or failed: a failed reply rolls
\* nothing back.
C8_AckFailureSwallowed ==
    acks # <<>> => (FORWARD_ENABLED = (acks[Len(acks)].text = "Forwarding started."))

\* C8 witness: the reply to a stop command failed, and a photo that arrived
\* afterwards was handled with the gate disabled and not sent.
C8_Witness ==
    /\ Len(acks) = 1
    /\ acks[1].text = "Forwarding stopped."
    /\ acks[1].status = "failed"
    /\ ~FORWARD_ENABLED
    /\ ev.handler = "forward_handler"
    /\ ~ev.enabled /\ ~ev.action /\ ev.media # NoMedia
    /\ sends = <<>>

\* The step taken is the return of _update_usd_rate_once.
Refreshed == schedPc = "fetching" /\ schedPc' = "sleeping"

\* The responses that count as failures, and the successful one.
RefreshFails(resp) ==
    \/ resp.transport = "error"
    \/ resp.status # 200
    \/ resp.json # "quotes"
    \/ resp.quote \in {"missing", "abc"}

\* C9: a refresh that meets a transport error, a status other than 200, a
\* missing quote or a quote that is no number leaves USD_TO_UZS_RATE as it
\* was, absent included, and the task goes on; a refresh that succeeds sets
\* the rate to the quoted value; no other step changes the rate.
C9_RefreshOutcome ==
    [][ /\ Refreshed => ev'.handler = "_update_usd_rate_once"
        /\ (Refreshed /\ RefreshFails(ev'.resp))
               => USD_TO_UZS_RATE' = USD_TO_UZS_RATE
        /\ (Refreshed /\ ~RefreshFails(ev'.resp))
               => (ev'.resp.quote = "3" /\ USD_TO_UZS_RATE' = 3)
        /\ USD_TO_UZS_RATE' # USD_TO_UZS_RATE => Refreshed ]_vars

\* C9 witness: the rate was 1.5 and a refresh that got HTTP 500 left it so.
C9_Witness ==
    /\ ev.handler = "_update_usd_rate_once"
    /\ ev.resp.status = 500
    /\ USD_TO_UZS_RATE = 3
    /\ schedPc = "sleeping"

\* C10: the refresh task makes its first attempt without sleeping first, then
\* alternates sleeps and attempts, and never stops: attempts and sleeps both
\* recur for ever, so after every attempt, failed ones included, another follows.
C10_RefreshForever ==
    /\ [][ /\ schedPc = "start" => schedPc' = "fetching"
           /\ schedPc = "fetching" => schedPc' = "sleeping"
           /\ schedPc = "sleeping" => schedPc' = "fetching" ]_schedPc
    /\ []<>(schedPc = "fetching")
    /\ []<>(schedPc = "sleeping")

\* C10 witness: the first attempt failed, the rate being still absent, and the
\* task slept and woke for its next attempt.
C10_Witness ==
    /\ schedPc = "fetching"
    /\ ev.handler = "_schedule_usd_rate_updates"
    /\ ev.at = "wake"
    /\ USD_TO_UZS_RATE = NoRate

\* C11: _convert_prices returns its text unchanged when USD_TO_UZS_RATE is
\* absent, and returns the empty text unchanged at every rate.
C11_PassThrough ==
    ev.handler = "_convert_prices"
        => (USD_TO_UZS_RATE = NoRate \/ ev.text = <<>> => ev.result = ev.text)

\* C11 witness: without a rate, "$ 400" came back as it was.
C11_Witness ==
    /\ ev.handler = "_convert_prices"
    /\ USD_TO_UZS_RATE = NoRate
    /\ ev.text = <<"$", " ", "4", "0", "0">>
    /\ ev.result = ev.text

\* C11 for the handlers: while USD_TO_UZS_RATE is absent, the caption or text
\* of a send just issued is the text that came in.
C11_EmittedAsReceived ==
    [][ Len(sends') > Len(sends) /\ USD_TO_UZS_RATE = NoRate
            => sends'[Len(sends')].caption =
                   (IF ev'.handler = "album_handler" THEN ev'.caption ELSE ev'.text) ]_vars

\* C12: at a set rate, when pass 2 changes the text, _convert_prices returns
\* the text as pass 2 left it: passes 3 and 4 convert nothing of it.
C12_MarkerPassPriority ==
    (/\ ev.handler = "_convert_prices"
     /\ USD_TO_UZS_RATE # NoRate
     /\ ev.dollar # ev.original_text)
        => ev.result = ev.dollar

\* C12 witness: at the rate 1.5, "150 000 and $ 3" came back with the $ 3
\* converted and the grouped 150 000, which pass 3 would convert, as it was.
C12_Witness ==
    /\ ev.handler = "_convert_prices"
    /\ USD_TO_UZS_RATE = 3
    /\ ev.text = <<"1", "5", "0", " ", "0", "0", "0", " ", "a", "n", "d", " ", "$", " ", "3">>
    /\ ev.dollar # ev.original_text
    /\ ev.result = <<"1", "5", "0", " ", "0", "0", "0", " ", "a", "n", "d", " ", "4", " ", "U", "Z", "S">>

\* A text that is one amount right after a plus sign, with or without space
\* between them, and at most a word after it: no currency marker in it.
PlusTexts ==
    {p \o a \o x : p \in {<<"+">>, <<"+", " ">>}, a \in ConvAmounts,
                   x \in {<<>>, <<" ", "b">>}}

\* C13: at a set rate, an amount right after a plus sign, whitespace ignored,
\* is left as it is by _convert_prices, whatever its length: no digit of it is
\* converted.
C13_PlusGuard ==
    (/\ ev.handler = "_convert_prices"
     /\ USD_TO_UZS_RATE # NoRate
     /\ ev.text \in PlusTexts)
        => ev.result = ev.text

\* A text that is one amount followed by a currency code, with or without
\* space between them, and at most a word before it: no dollar in it, so
\* pass 2 changes nothing.
SuffixedTexts ==
    {p \o a \o x : p \in {<<>>, <<"a", " ">>}, a \in ConvAmounts,
                   x \in {<<" ", "U", "Z", "S">>, <<"U", "S", "D">>,
                          <<" ", "u", "s", "d">>}}

\* C14: at a set rate, an amount already followed by UZS, USD or usd is not
\* converted by passes 3 and 4, in whole or in part: the text comes back as
\* it was.
C14_SuffixedGuard ==
    (/\ ev.handler = "_convert_prices"
     /\ USD_TO_UZS_RATE # NoRate
     /\ ev.text \in SuffixedTexts)
        => ev.result = ev.text

\* The amounts passes 3 and 4 convert when nothing marks them: grouped, or of
\* five digits and more.
BareAmounts ==
    {a \in ConvAmounts : Len(a) >= 5}

\* The ways an amount is written as a literal to convert: followed by the
\* dollar, with and without space, after the dollar, with and without space,
\* and bare.
AmountLiterals(a) ==
    {a \o <<"$">>, a \o <<" ", "$">>, <<"$">> \o a, <<"$", " ">> \o a}
        \cup (IF a \in BareAmounts THEN {a} ELSE {})

\* round(n * rate) for the integer n that is left of the amount without its
\* separators, with a space between its groups of three digits.
Rendered(a, rate) ==
    GroupThousands(IntToText(
        RoundAmountTimesRate(ParseInt(RemoveChars(a, {" ", "_", ".", ","})), rate)))

\* C15: at a set rate, an amount literal is replaced by the rendering of
\* round(n * rate) and " UZS", n being the amount without its separators, and
\* the text around the literal stays as it was.
C15_ConvertedInPlace ==
    (ev.handler = "_convert_prices" /\ USD_TO_UZS_RATE # NoRate)
        => \A pre \in {<<>>, <<"a", " ">>}, a \in ConvAmounts, post \in {<<>>, <<" ", "b">>} :
               \A lit \in AmountLiterals(a) :
                   ev.text = pre \o lit \o post
                       => ev.result = pre \o Rendered(a, USD_TO_UZS_RATE)
                                          \o <<" ", "U", "Z", "S">> \o post

\* C15 without the literals that begin with the dollar and have text after
\* them.
C15_ExceptLeadingDollar ==
    (ev.handler = "_convert_prices" /\ USD_TO_UZS_RATE # NoRate)
        => \A pre \in {<<>>, <<"a", " ">>}, a \in ConvAmounts, post \in {<<>>, <<" ", "b">>} :
               \A lit \in AmountLiterals(a) :
                   (ev.text = pre \o lit \o post /\ (lit[1] # "$" \/ post = <<>>))
                       => ev.result = pre \o Rendered(a, USD_TO_UZS_RATE)
                                          \o <<" ", "U", "Z", "S">> \o post

\* C16: a batch, with or without caption, for a group that is already in
\* PROCESSED_ALBUM_IDS issues no send and leaves PENDING_ALBUMS and
\* PROCESSED_ALBUM_IDS as they were.
C16_DuplicateBatchIgnored ==
    [][ Handled("album_handler") /\ ev'.gid \in PROCESSED_ALBUM_IDS
            => /\ sends' = sends
               /\ PENDING_ALBUMS' = PENDING_ALBUMS
               /\ PROCESSED_ALBUM_IDS' = PROCESSED_ALBUM_IDS ]_vars

\* C17: a caption edit for a group without an entry in PENDING_ALBUMS issues no
\* send and changes neither PENDING_ALBUMS nor PROCESSED_ALBUM_IDS; a caption
\* edit with text for a group that is already in PROCESSED_ALBUM_IDS issues no
\* send, and the group has no entry in PENDING_ALBUMS after it.
C17_EditGuards ==
    [][ Handled("album_caption_edited_handler") /\ ~ev'.action
            => /\ ev'.gid \notin DOMAIN PENDING_ALBUMS
                   => /\ sends' = sends
                      /\ PENDING_ALBUMS' = PENDING_ALBUMS
                      /\ PROCESSED_ALBUM_IDS' = PROCESSED_ALBUM_IDS
               /\ ev'.text # <<>> /\ ev'.gid \in PROCESSED_ALBUM_IDS
                   => /\ sends' = sends
                      /\ ev'.gid \notin DOMAIN PENDING_ALBUMS' ]_vars

\* C17 for the caption edits handled with the gate enabled.
C17_EditGuardsGateEnabled ==
    [][ Handled("album_caption_edited_handler") /\ ~ev'.action /\ FORWARD_ENABLED
            => /\ ev'.gid \notin DOMAIN PENDING_ALBUMS
                   => /\ sends' = sends
                      /\ PENDING_ALBUMS' = PENDING_ALBUMS
                      /\ PROCESSED_ALBUM_IDS' = PROCESSED_ALBUM_IDS
               /\ ev'.text # <<>> /\ ev'.gid \in PROCESSED_ALBUM_IDS
                   => /\ sends' = sends
                      /\ ev'.gid \notin DOMAIN PENDING_ALBUMS' ]_vars

\* The groups one of whose sends has failed.
FailedGroups == {g \in Gids : \E i \in SendsFor(g) : sends[i].status = "failed"}

\* C18: a send for a group is issued with the group already in
\* PROCESSED_ALBUM_IDS and, on the edit path, out of PENDING_ALBUMS; a send
\* that fails changes neither collection; a group whose send has failed stays
\* processed and gets no further send from any later batch or edit, while a
\* batch with media and caption for another, new group is sent all the same.
C18_FailedNotRetried ==
    [][ /\ Len(sends') > Len(sends) /\ sends'[Len(sends')].gid \in Gids
            => /\ sends'[Len(sends')].gid \in PROCESSED_ALBUM_IDS'
               /\ sends'[Len(sends')].handler = "album_caption_edited_handler"
                      => sends'[Len(sends')].gid \notin DOMAIN PENDING_ALBUMS'
        /\ Handled("return")
            => /\ PROCESSED_ALBUM_IDS' = PROCESSED_ALBUM_IDS
               /\ PENDING_ALBUMS' = PENDING_ALBUMS
               /\ FORWARD_ENABLED' = FORWARD_ENABLED
               /\ Len(sends') = Len(sends)
        /\ \A g \in FailedGroups :
               /\ g \in PROCESSED_ALBUM_IDS'
               /\ {i \in DOMAIN sends' : sends'[i].gid = g} = SendsFor(g)
        /\ (/\ FailedGroups # {}
            /\ Handled("album_handler")
            /\ FORWARD_ENABLED
            /\ ev'.gid \in Gids \ PROCESSED_ALBUM_IDS
            /\ ev'.files # <<>>
            /\ ev'.caption # <<>>)
               => /\ Len(sends') = Len(sends) + 1
                  /\ sends'[Len(sends')].gid = ev'.gid ]_vars

\* C18 witness: the send of the album of group 1 failed, the album of group 2
\* was sent after that, and a caption edit with text for group 1 was then
\* handled with the gate enabled: group 1 still has its one failed send.
C18_Witness ==
    /\ 1 \in FailedGroups
    /\ Cardinality(SendsFor(1)) = 1
    /\ SendsFor(2) # {}
    /\ ev.handler = "album_caption_edited_handler"
    /\ ev.gid = 1 /\ ev.text # <<>> /\ ~ev.action /\ ev.enabled

\* C19: a caption edit handled while the gate is disabled issues no send and
\* changes neither PENDING_ALBUMS nor PROCESSED_ALBUM_IDS, so a buffered album
\* stays buffered; a caption edit with text handled with the gate enabled for
\* a group that is buffered and not processed issues the first and only send
\* of the group, with the buffered media.
C19_DisabledEditNoOp ==
    [][ /\ Handled("album_caption_edited_handler") /\ ~FORWARD_ENABLED
            => /\ sends' = sends
               /\ PENDING_ALBUMS' = PENDING_ALBUMS
               /\ PROCESSED_ALBUM_IDS' = PROCESSED_ALBUM_IDS
        /\ (/\ Handled("album_caption_edited_handler")
            /\ FORWARD_ENABLED
            /\ ~ev'.action /\ ev'.text # <<>>
            /\ ev'.gid \in DOMAIN PENDING_ALBUMS
            /\ ev'.gid \notin PROCESSED_ALBUM_IDS)
               => /\ SendsFor(ev'.gid) = {}
                  /\ Len(sends') = Len(sends) + 1
                  /\ sends'[Len(sends')].gid = ev'.gid
                  /\ sends'[Len(sends')].files = PENDING_ALBUMS[ev'.gid]
                  /\ ev'.gid \in PROCESSED_ALBUM_IDS' ]_vars

\* C19 witness: an album without caption was buffered, the gate was disabled,
\* and a caption edit with text for the group was handled: nothing was sent,
\* and the album is still buffered and not processed.
C19_Witness ==
    /\ ev.handler = "album_caption_edited_handler"
    /\ ~ev.enabled /\ ~ev.action /\ ev.text # <<>>
    /\ ~FORWARD_ENABLED
    /\ ev.gid \in DOMAIN PENDING_ALBUMS
    /\ ev.gid \notin PROCESSED_ALBUM_IDS
    /\ sends = <<>>

\* C20: a batch with media and no caption for a group that already has a
\* buffered media list replaces that list by its own media, in their order,
\* and the send a caption edit issues carries the list buffered last.
C20_LastWriteWins ==
    [][ /\ (/\ Handled("album_handler")
            /\ ev'.gid \in DOMAIN PENDING_ALBUMS
            /\ ev'.files # <<>>
            /\ ev'.caption = <<>>)
               => /\ ev'.gid \in DOMAIN PENDING_ALBUMS'
                  /\ PENDING_ALBUMS'[ev'.gid] = ev'.files
        /\ (/\ Handled("album_caption_edited_handler")
            /\ Len(sends') > Len(sends))
               => sends'[Len(sends')].files = PENDING_ALBUMS[ev'.gid] ]_vars

\* C20 for the batches handled with the gate enabled.
C20_LastWriteWinsGateEnabled ==
    [][ /\ (/\ Handled("album_handler")
            /\ FORWARD_ENABLED
            /\ ev'.gid \in DOMAIN PENDING_ALBUMS
            /\ ev'.files # <<>>
            /\ ev'.caption = <<>>)
               => /\ ev'.gid \in DOMAIN PENDING_ALBUMS'
                  /\ PENDING_ALBUMS'[ev'.gid] = ev'.files
        /\ (/\ Handled("album_caption_edited_handler")
            /\ Len(sends') > Len(sends))
               => sends'[Len(sends')].files = PENDING_ALBUMS[ev'.gid] ]_vars

====
